---- MODULE Spec2Model ----
(***************************************************************************)
(* The registration workflow of the Person/Address/Course demo service:    *)
(* the in-memory stores of main.py, create_registration and                *)
(* update_registration, with the enrollment counter kept on the course.    *)
(***************************************************************************)
EXTENDS Integers, Sequences, FiniteSets, TLC

\* ---------------------------------------------------------------- bounds
MaxRegistrations == 3
MaxCapacity == 1
\* update_registration can lower enrollment without end (re-enroll by update,
\* drop again); the model follows it down to -MaxDeficit.
MaxDeficit == 1

\* The UUIDs a request can name; a store holds those created so far.
PersonIds == {"p1"}
CourseIds == {"c1", "c2"}
RegistrationIds == 1..MaxRegistrations

\* --------------------------------------------------------- value domains
\* Python's None, as a value no status string equals.
None == "<None>"

\* RegistrationRead.status is a str; requests draw it from the three values
\* the field's description names, the only ones the workflow branches on.
StatusStrings == {"enrolled", "waitlisted", "dropped"}

\* RegistrationUpdate.model_dump(exclude_unset=True): the empty dict when the
\* caller supplied no status, {"status": v} otherwise (v may be null).
Unset == [k \in {} |-> None]

RegistrationUpdate == {Unset} \cup {[status |-> s] : s \in StatusStrings \cup {None}}

\* CourseCreate payloads (only the ledger fields).
CourseCreate == [capacity : 0..MaxCapacity, enrollment : 0..1]

VARIABLES
    persons,        \* main.py persons: the set of stored person ids
    courses,        \* main.py courses: course id -> [capacity, enrollment]
    registrations,  \* main.py registrations: the dict's values in insertion order
    clock,          \* datetime.utcnow as a logical clock read by created_at
    created,        \* history: course id -> the CourseCreate payload it was created from
    response,       \* the last handler call's outcome: HTTP status, detail, ledger effect
    pc,             \* concurrent requests: each worker thread's position
    frame           \* concurrent requests: each worker thread's locals

vars == <<persons, courses, registrations, clock, created, response, pc, frame>>

\* ------------------------------------------------------- dict operations
\* key in d, for the registrations dict (keyed by RegistrationRead.id).
HasKey(d, key) == \E i \in 1..Len(d) : d[i].id = key

IndexOf(d, key) == CHOOSE i \in 1..Len(d) : d[i].id = key

GetItem(d, key) == d[IndexOf(d, key)]

\* A wrong dict: assignment to an existing key moves the entry to the end.
DictSetMovesToEnd(d, key, value) ==
    IF HasKey(d, key)
    THEN Append(SelectSeq(d, LAMBDA r : r.id # key), value)
    ELSE Append(d, value)

\* d[key] = value: an existing key keeps its position, a new key goes last.
DictSet(d, key, value) ==
    IF HasKey(d, key)
    THEN [d EXCEPT ![IndexOf(d, key)] = value]
    ELSE Append(d, value)

\* stored.update(upd) on a model_dump(): supplied keys overwrite, others stay.
DictUpdate(stored, upd) ==
    [k \in DOMAIN stored \cup DOMAIN upd |->
        IF k \in DOMAIN upd THEN upd[k] ELSE stored[k]]

\* uuid4(): an id no stored record has.
FreshId(used, ids) == CHOOSE i \in ids \ used : TRUE

RegistrationKeys == {registrations[i].id : i \in 1..Len(registrations)}

\* ------------------------------------------------------ the ledger tests
PersonAlwaysExists(person_id) == TRUE

PersonExists(person_id) == person_id \in persons

CourseExists(course_id) == course_id \in DOMAIN courses

HasCapacityOffByOne(course) == course.enrollment <= course.capacity

\* course.enrollment < course.capacity
HasCapacity(course) == course.enrollment < course.capacity

IsDropAnyOldStatus(old_status, new_status) == new_status = "dropped"

\* old_status == "enrolled" and new_status == "dropped"
IsDrop(old_status, new_status) ==
    old_status = "enrolled" /\ new_status = "dropped"

DecrementNot(enrollment) == enrollment

\* course.enrollment -= 1
Decrement(enrollment) == enrollment - 1

IncrementNot(enrollment) == enrollment

\* course.enrollment += 1
Increment(enrollment) == enrollment + 1

FirstWaitlistedAnyCourse(d, course_id) ==
    LET hits == {i \in 1..Len(d) : d[i].status = "waitlisted"}
    IN  IF hits = {} THEN 0 ELSE CHOOSE i \in hits : \A j \in hits : i <= j

\* next((r for r in registrations.values() if r.course_id == course.id and
\* r.status == "waitlisted"), None): the position of the first match, 0 for None.
FirstWaitlisted(d, course_id) ==
    LET hits == {i \in 1..Len(d) :
                    d[i].course_id = course_id /\ d[i].status = "waitlisted"}
    IN  IF hits = {} THEN 0 ELSE CHOOSE i \in hits : \A j \in hits : i <= j

\* ------------------------------------------------------------------ Init
Threads == 1..2

\* The locals of a create_registration call that has not started.
NoFrame == [person_id |-> None, course_id |-> None, status |-> None,
            loaded |-> 0, code |-> 0]

\* The outcome of a handler call: the HTTP status code, the HTTPException
\* detail (for a created registration, its status), and the id of the
\* registration the call promoted from the waitlist (0: none).
Response(code, detail, promoted) ==
    [code |-> code, detail |-> detail, promoted |-> promoted]

Init ==
    /\ persons = {}
    /\ courses = [c \in {} |-> None]
    /\ registrations = <<>>
    /\ clock = 0
    /\ created = [c \in {} |-> None]
    /\ response = Response(0, "", 0)
    /\ pc = [t \in Threads |-> "idle"]
    /\ frame = [t \in Threads |-> NoFrame]

\* --------------------------------------------------------------- actions
create_person ==
    /\ persons # PersonIds
    /\ LET id == FreshId(persons, PersonIds)
       IN  /\ persons' = persons \cup {id}
           /\ response' = Response(201, "", 0)
    /\ UNCHANGED <<courses, registrations, clock, created, pc, frame>>

create_course(course) ==
    /\ DOMAIN courses # CourseIds
    /\ LET id == FreshId(DOMAIN courses, CourseIds)
       IN  /\ courses' = [c \in DOMAIN courses \cup {id} |->
                            IF c = id THEN course ELSE courses[c]]
           /\ created' = [c \in DOMAIN courses \cup {id} |->
                            IF c = id THEN course ELSE created[c]]
           /\ response' = Response(201, "", 0)
    /\ UNCHANGED <<persons, registrations, clock, pc, frame>>

\* The status create_registration decides and the enrollment it leaves.
CreateStatus(course) == IF HasCapacity(course) THEN "enrolled" ELSE "waitlisted"

CreateEnrollment(course) ==
    IF HasCapacity(course) THEN Increment(course.enrollment) ELSE course.enrollment

create_registration(person_id, course_id) ==
    /\ UNCHANGED <<persons, created, pc, frame>>
    /\ IF ~PersonExists(person_id) THEN
            /\ response' = Response(404, "Person not found", 0)
            /\ UNCHANGED <<courses, registrations, clock>>
       ELSE IF ~CourseExists(course_id) THEN
            /\ response' = Response(404, "Course not found", 0)
            /\ UNCHANGED <<courses, registrations, clock>>
       ELSE
            /\ Len(registrations) < MaxRegistrations
            /\ LET course == courses[course_id]
                   id == FreshId(RegistrationKeys, RegistrationIds)
                   registration_read ==
                       [id |-> id, person_id |-> person_id, course_id |-> course_id,
                        status |-> CreateStatus(course), created_at |-> clock + 1]
               IN  /\ registrations' = DictSet(registrations, id, registration_read)
                   /\ courses' = [courses EXCEPT
                                    ![course_id].enrollment = CreateEnrollment(course)]
                   /\ clock' = clock + 1
                   /\ response' = Response(201, registration_read.status, 0)

update_registration(registration_id, update) ==
    /\ UNCHANGED <<persons, clock, created, pc, frame>>
    /\ IF ~HasKey(registrations, registration_id) THEN
            /\ response' = Response(404, "Registration not found", 0)
            /\ UNCHANGED <<courses, registrations>>
       ELSE LET stored == DictUpdate(GetItem(registrations, registration_id), update)
            IN  IF stored.status = None THEN
                    \* RegistrationRead(**stored) raises: status must be a str
                    /\ response' = Response(500, "ValidationError", 0)
                    /\ UNCHANGED <<courses, registrations>>
                ELSE LET
                    registration == stored
                    course_id == registration.course_id
                    old_status == GetItem(registrations, registration_id).status
                    new_status == registration.status
                    drop == IsDrop(old_status, new_status)
                    w == IF drop THEN FirstWaitlisted(registrations, course_id) ELSE 0
                    e0 == courses[course_id].enrollment
                    e1 == IF drop THEN Decrement(e0) ELSE e0
                    e2 == IF w # 0 THEN Increment(e1) ELSE e1
                    regs1 == IF w # 0
                             THEN DictSet(registrations, registrations[w].id,
                                     [registrations[w] EXCEPT !.status = "enrolled"])
                             ELSE registrations
                IN  /\ e2 >= -MaxDeficit
                    /\ registrations' = DictSet(regs1, registration_id, registration)
                    /\ courses' = [courses EXCEPT ![course_id].enrollment = e2]
                    /\ response' = Response(200, "",
                                       IF w # 0 THEN registrations[w].id ELSE 0)

Next ==
    \/ create_person
    \/ \E course \in CourseCreate : create_course(course)
    \/ \E person_id \in PersonIds, course_id \in CourseIds :
          create_registration(person_id, course_id)
    \/ \E registration_id \in RegistrationIds, update \in RegistrationUpdate :
          update_registration(registration_id, update)

Spec == Init /\ [][Next]_vars

\* Successive creations for one course: registrations are created for any
\* course, and update_registration reaches only registrations of courses other
\* than "c1", so that "c1" sees nothing but create_registration calls.
update_registration_elsewhere(registration_id, update) ==
    /\ HasKey(registrations, registration_id)
    /\ GetItem(registrations, registration_id).course_id # "c1"
    /\ update_registration(registration_id, update)

NextSequence ==
    \/ create_person
    \/ \E course \in CourseCreate : create_course(course)
    \/ \E person_id \in PersonIds, course_id \in CourseIds :
          create_registration(person_id, course_id)
    \/ \E registration_id \in RegistrationIds, update \in RegistrationUpdate :
          update_registration_elsewhere(registration_id, update)

SpecSequence == Init /\ [][NextSequence]_vars

\* Drops only: every update_registration call supplies the status "dropped".
update_registration_dropped(registration_id) ==
    update_registration(registration_id, [status |-> "dropped"])

NextDropOnly ==
    \/ create_person
    \/ \E course \in CourseCreate : create_course(course)
    \/ \E person_id \in PersonIds, course_id \in CourseIds :
          create_registration(person_id, course_id)
    \/ \E registration_id \in RegistrationIds :
          update_registration_dropped(registration_id)

SpecDropOnly == Init /\ [][NextDropOnly]_vars

\* ----------------------------------------------- concurrent requests
\* create_registration is a sync endpoint: FastAPI runs each request on a
\* worker thread, and main.py takes no lock. Two requests run the handler's
\* steps interleaved: the existence checks, the comparison of line 233, the
\* read and the write of "course.enrollment += 1", and the stores that follow.
InitConc ==
    /\ persons \in SUBSET PersonIds
    /\ \E D \in SUBSET CourseIds : courses \in [D -> CourseCreate]
    /\ created = courses
    /\ registrations = <<>>
    /\ clock = 0
    /\ response = Response(0, "", 0)
    /\ pc = [t \in Threads |-> "request"]
    /\ frame = [t \in Threads |-> NoFrame]

cr_check(t, person_id, course_id) ==
    /\ pc[t] = "request"
    /\ IF PersonExists(person_id) /\ CourseExists(course_id)
       THEN /\ pc' = [pc EXCEPT ![t] = "compare"]
            /\ frame' = [frame EXCEPT ![t] = [NoFrame EXCEPT
                            !.person_id = person_id, !.course_id = course_id]]
       ELSE /\ pc' = [pc EXCEPT ![t] = "done"]
            /\ frame' = [frame EXCEPT ![t] = [NoFrame EXCEPT
                            !.person_id = person_id, !.course_id = course_id,
                            !.code = 404]]
    /\ UNCHANGED <<persons, courses, registrations, clock, created, response>>

cr_compare(t) ==
    /\ pc[t] = "compare"
    /\ IF HasCapacity(courses[frame[t].course_id])
       THEN /\ pc' = [pc EXCEPT ![t] = "load"]
            /\ frame' = [frame EXCEPT ![t].status = "enrolled"]
       ELSE /\ pc' = [pc EXCEPT ![t] = "persist"]
            /\ frame' = [frame EXCEPT ![t].status = "waitlisted"]
    /\ UNCHANGED <<persons, courses, registrations, clock, created, response>>

cr_load(t) ==
    /\ pc[t] = "load"
    /\ frame' = [frame EXCEPT ![t].loaded = courses[frame[t].course_id].enrollment]
    /\ pc' = [pc EXCEPT ![t] = "store"]
    /\ UNCHANGED <<persons, courses, registrations, clock, created, response>>

cr_store(t) ==
    /\ pc[t] = "store"
    /\ courses' = [courses EXCEPT
                     ![frame[t].course_id].enrollment = Increment(frame[t].loaded)]
    /\ pc' = [pc EXCEPT ![t] = "persist"]
    /\ UNCHANGED <<persons, registrations, clock, created, response, frame>>

cr_persist(t) ==
    /\ pc[t] = "persist"
    /\ LET id == FreshId(RegistrationKeys, RegistrationIds)
           registration_read ==
               [id |-> id, person_id |-> frame[t].person_id,
                course_id |-> frame[t].course_id, status |-> frame[t].status,
                created_at |-> clock + 1]
       IN  /\ registrations' = DictSet(registrations, id, registration_read)
           /\ clock' = clock + 1
    /\ frame' = [frame EXCEPT ![t].code = 201]
    /\ pc' = [pc EXCEPT ![t] = "done"]
    /\ UNCHANGED <<persons, courses, created, response>>

NextConc ==
    \/ \E t \in Threads, person_id \in PersonIds, course_id \in CourseIds :
          cr_check(t, person_id, course_id)
    \/ \E t \in Threads : cr_compare(t)
    \/ \E t \in Threads : cr_load(t)
    \/ \E t \in Threads : cr_store(t)
    \/ \E t \in Threads : cr_persist(t)

SpecConc == InitConc /\ [][NextConc]_vars

\* ------------------------------------------------------------ vocabulary
Positions == 1..Len(registrations)

RegistrationsOf(course_id) ==
    {i \in Positions : registrations[i].course_id = course_id}

WithStatus(course_id, status) ==
    {i \in RegistrationsOf(course_id) : registrations[i].status = status}

StatusOf(d, key) == GetItem(d, key).status

CourseOf(key) == GetItem(registrations, key).course_id

\* The call update_registration(key, update) takes a stored registration from
\* "enrolled" to "dropped".
EnrolledToDropped(key, update) ==
    /\ HasKey(registrations, key)
    /\ StatusOf(registrations, key) = "enrolled"
    /\ DictUpdate(GetItem(registrations, key), update).status = "dropped"

\* The registrations a step turns from "waitlisted" into "enrolled".
Promoted ==
    {k \in RegistrationKeys :
        /\ StatusOf(registrations, k) = "waitlisted"
        /\ HasKey(registrations', k)
        /\ StatusOf(registrations', k) = "enrolled"}

\* Every stored registration but those of `keys` is the same record after the step.
OthersUntouched(keys) ==
    /\ Len(registrations') = Len(registrations)
    /\ \A k \in RegistrationKeys \ keys :
          HasKey(registrations', k) /\ GetItem(registrations', k) = GetItem(registrations, k)

\* ---------------------------------------------------------------- claims

\* C1: for every course created with enrollment 0, course.enrollment equals the
\* number of stored registrations of that course whose status is "enrolled",
\* in every state create_registration and update_registration can reach.
C1_EnrollmentCountsEnrolled ==
    \A c \in DOMAIN courses :
        created[c].enrollment = 0 =>
            courses[c].enrollment = Cardinality(WithStatus(c, "enrolled"))

\* C2: for every course created with enrollment >= 0, course.enrollment >= 0
\* in every state create_registration and update_registration can reach.
C2_EnrollmentNonNegative ==
    \A c \in DOMAIN courses :
        created[c].enrollment >= 0 => courses[c].enrollment >= 0

\* C3: for every course created with enrollment <= capacity (capacity is never
\* changed here), course.enrollment <= course.capacity in every reachable state;
\* so the increment of a promotion, which leads to such a state, starts from an
\* enrollment below capacity.
C3_EnrollmentWithinCapacity ==
    \A c \in DOMAIN courses :
        created[c].enrollment <= created[c].capacity =>
            /\ courses[c].capacity = created[c].capacity
            /\ courses[c].enrollment <= courses[c].capacity

\* C3 witness: a promotion has just refilled the last seat of such a course.
C3_Witness ==
    /\ response.promoted # 0
    /\ LET c == CourseOf(response.promoted)
       IN  /\ created[c].enrollment <= created[c].capacity
           /\ courses[c].enrollment = courses[c].capacity

\* C4: two concurrent create_registration calls for a course with exactly one
\* free seat do not both find a seat: once both have answered, at most one of
\* the two registrations is "enrolled" and enrollment equals capacity.
C4_LastSeatGivenOnce ==
    \A c \in DOMAIN courses :
        (/\ created[c].capacity - created[c].enrollment = 1
         /\ \A t \in Threads :
               pc[t] = "done" /\ frame[t].code = 201 /\ frame[t].course_id = c)
        => /\ Cardinality(WithStatus(c, "enrolled")) <= 1
           /\ courses[c].enrollment = courses[c].capacity

\* The rank of the registration at position i among those of its course, by
\* creation time.
CreationRank(i) ==
    Cardinality({j \in RegistrationsOf(registrations[i].course_id) :
                    registrations[j].created_at <= registrations[i].created_at})

\* C5: a course with capacity N created with enrollment 0 that sees only
\* create_registration calls gives "enrolled" to its first N registrations and
\* "waitlisted" to the (N+1)-th, and its enrollment is N after N+1 creations.
C5_FillThenWaitlist ==
    ("c1" \in DOMAIN courses /\ created["c1"].enrollment = 0) =>
        LET N == courses["c1"].capacity
        IN  /\ \A i \in RegistrationsOf("c1") :
                  /\ CreationRank(i) <= N => registrations[i].status = "enrolled"
                  /\ CreationRank(i) = N + 1 => registrations[i].status = "waitlisted"
            /\ Cardinality(RegistrationsOf("c1")) = N + 1 =>
                  courses["c1"].enrollment = N

\* C5 witness: capacity MaxCapacity, one registration more than that, the last
\* one waitlisted.
C5_Witness ==
    /\ "c1" \in DOMAIN courses
    /\ created["c1"] = [capacity |-> MaxCapacity, enrollment |-> 0]
    /\ Cardinality(RegistrationsOf("c1")) = MaxCapacity + 1
    /\ Cardinality(WithStatus("c1", "waitlisted")) = 1
    /\ courses["c1"].enrollment = MaxCapacity

\* C6: an enrolled -> dropped update of a registration whose course has a
\* waitlisted registration promotes exactly one registration, one of that same
\* course, leaves the target "dropped" and every other registration as it was,
\* and leaves the course's enrollment as it was before the call.
C6_DropPromotesOne ==
    [][\A key \in RegistrationIds, update \in RegistrationUpdate :
        (/\ EnrolledToDropped(key, update)
         /\ WithStatus(CourseOf(key), "waitlisted") # {}
         /\ update_registration(key, update))
        => /\ Cardinality(Promoted) = 1
           /\ response'.promoted \in Promoted
           /\ \A k \in Promoted : CourseOf(k) = CourseOf(key)
           /\ StatusOf(registrations', key) = "dropped"
           /\ OthersUntouched(Promoted \cup {key})
           /\ courses' = courses]_vars

\* C6 witness: a drop has promoted a registration while another course holds a
\* waitlisted registration too.
C6_Witness ==
    /\ response.code = 200
    /\ response.promoted # 0
    /\ StatusOf(registrations, response.promoted) = "enrolled"
    /\ \E i \in Positions :
          /\ registrations[i].course_id # CourseOf(response.promoted)
          /\ registrations[i].status = "waitlisted"

\* C7: an enrolled -> dropped update of a registration whose course has no
\* waitlisted registration lowers that course's enrollment by exactly 1 and
\* changes no other registration.
C7_DropFreesSeat ==
    [][\A key \in RegistrationIds, update \in RegistrationUpdate :
        (/\ EnrolledToDropped(key, update)
         /\ WithStatus(CourseOf(key), "waitlisted") = {}
         /\ update_registration(key, update))
        => /\ courses'[CourseOf(key)].enrollment = courses[CourseOf(key)].enrollment - 1
           /\ \A c \in DOMAIN courses \ {CourseOf(key)} : courses'[c] = courses[c]
           /\ StatusOf(registrations', key) = "dropped"
           /\ response'.promoted = 0
           /\ OthersUntouched({key})]_vars

\* C7 witness: a drop with nobody to promote has emptied a course that still
\* has another registration, while the other course has a waitlist.
C7_Witness ==
    /\ response.code = 200
    /\ response.promoted = 0
    /\ \E c \in DOMAIN courses :
          /\ created[c].enrollment = 0
          /\ courses[c].capacity > 0
          /\ courses[c].enrollment = 0
          /\ Cardinality(WithStatus(c, "dropped")) = 1
          /\ Cardinality(RegistrationsOf(c)) = 1
          /\ \E d \in DOMAIN courses \ {c} : WithStatus(d, "waitlisted") # {}

\* C8: an update_registration call that is not an enrolled -> dropped update of
\* a stored registration (another pair of statuses, no status supplied, an
\* unknown id, a null status) changes no course and no registration but the
\* target, of which it changes the status only.
C8_OtherUpdatesNoLedgerEffect ==
    [][\A key \in RegistrationIds, update \in RegistrationUpdate :
        (~EnrolledToDropped(key, update) /\ update_registration(key, update))
        => /\ courses' = courses
           /\ OthersUntouched({key})
           /\ response'.promoted = 0
           /\ HasKey(registrations, key) =>
                 \E s \in StatusStrings :
                    GetItem(registrations', key) =
                        [GetItem(registrations, key) EXCEPT !.status = s]]_vars

\* C8 witness: a course with a free seat, no enrolled registration counted and
\* a dropped registration next to a waitlisted one, right after an update:
\* a waitlisted registration was set to "dropped" and nobody was promoted.
C8_Witness ==
    /\ response.code = 200
    /\ response.promoted = 0
    /\ \E c \in DOMAIN courses :
          /\ created[c] = [capacity |-> 0, enrollment |-> 0]
          /\ courses[c].enrollment = 0
          /\ WithStatus(c, "dropped") # {}
          /\ WithStatus(c, "waitlisted") # {}
          /\ WithStatus(c, "enrolled") = {}

\* C9: create_registration with a person_id not in the person store, or a
\* course_id not in the course store, answers 404 and changes no store.
C9_UnknownIdsNotFound ==
    [][\A person_id \in PersonIds, course_id \in CourseIds :
        (/\ create_registration(person_id, course_id)
         /\ (person_id \notin persons \/ course_id \notin DOMAIN courses))
        => /\ response'.code = 404
           /\ response'.detail \in {"Person not found", "Course not found"}
           /\ UNCHANGED <<persons, courses, registrations>>]_vars

\* C9 witness: the call was refused for its course while registrations exist.
C9_Witness ==
    /\ response.code = 404
    /\ response.detail = "Course not found"
    /\ persons # {}
    /\ Len(registrations) > 0

\* C10: the registration an enrolled -> dropped update promotes is the first in
\* store order among the waitlisted registrations of that course, which is the
\* one of them created earliest: storing a registration again never moves it.
C10_PromotesEarliestCreated ==
    [][\A key \in RegistrationIds, update \in RegistrationUpdate :
        (/\ EnrolledToDropped(key, update)
         /\ WithStatus(CourseOf(key), "waitlisted") # {}
         /\ update_registration(key, update))
        => LET waiting == WithStatus(CourseOf(key), "waitlisted")
               first == CHOOSE i \in waiting : \A j \in waiting : i <= j
           IN  /\ response'.promoted = registrations[first].id
               /\ \A j \in waiting :
                     registrations[first].created_at <= registrations[j].created_at
               /\ \A i \in Positions : registrations'[i].id = registrations[i].id]_vars

\* C10 witness: the promoted registration is the first one ever created, which
\* a course with a free seat created "enrolled": it joined the waitlist by an
\* update, and a registration created after it still waits.
C10_Witness ==
    /\ response.promoted # 0
    /\ LET p == GetItem(registrations, response.promoted)
       IN  /\ created[p.course_id] = [capacity |-> 1, enrollment |-> 0]
           /\ p.created_at = 1
           /\ \E i \in WithStatus(p.course_id, "waitlisted") :
                 registrations[i].created_at > p.created_at

\* C11: for a course created with enrollment 0 and capacity >= 0 (capacity is
\* never changed here), when the only calls are create_registration and
\* update_registration to "dropped", a free seat and a waitlist never coexist:
\* whenever a registration of the course is "waitlisted", enrollment equals
\* capacity.
C11_NoFreeSeatWithWaitlist ==
    \A c \in DOMAIN courses :
        (/\ created[c].enrollment = 0
         /\ created[c].capacity >= 0
         /\ WithStatus(c, "waitlisted") # {})
        => courses[c].enrollment = courses[c].capacity

\* C11 witness: a drop has just promoted a registration of such a course with
\* a seat to give, and another registration of the course still waits.
C11_Witness ==
    /\ response.code = 200
    /\ response.promoted # 0
    /\ LET c == CourseOf(response.promoted)
       IN  /\ created[c].enrollment = 0
           /\ created[c].capacity >= 1
           /\ WithStatus(c, "waitlisted") # {}
           /\ WithStatus(c, "dropped") # {}

====
